---- MODULE Spec2Model ----
\* A limit order book with price-time priority: the Orderbook class of
\* orderbook.cpp (AddOrder, CancelOrder, MatchOrder, MatchOrders, CanMatch,
\* Size, GetOrderInfos) as a state machine, one action per public call.
EXTENDS Integers, Sequences, FiniteSets, TLC

\* ------------------------------------------------------------- bounds
MaxQty == 2         \* the largest quantity submitted

\* A Quantity is a uint32: two halves of 16 bits each.
Half == 65536
\* The largest quantity whose sum with another one is still an integer of the
\* checker (2^31 - 1); three of them at one level exceed the uint32 range.
BigQty == (Half \div 2 - 1) * Half + (Half - 1)

OrderIds == {1, 2, 3}
Prices == {1, 2}
\* The quantities submitted: zero, one unit and the largest; fills leave every
\* remainder in between.
Quantities == {0, 1, MaxQty}
\* Quantities near the top of the range, and the quantity zero.
WideQuantities == {0, BigQty}
OrderTypes == {"GoodTillCancel", "FillandKill"}
Sides == {"Buy", "Sell"}

VARIABLES
    bids_,      \* price -> list of order pointers, best = highest price
    asks_,      \* price -> list of order pointers, best = lowest price
    orders_,    \* order id -> OrderEntry (order pointer, list position)
    objs,       \* the Order objects some shared pointer still owns
    trades,     \* what the last call returned
    last,       \* the last call and its arguments
    pre,        \* the book when the last call was made
    outcome,    \* how the last call ended: "ok", or the failure that ended the run
    dangling,   \* source lines of the last call that read through an erased element
    fills       \* order id -> the quantity all trades naming the live order executed

vars == <<bids_, asks_, orders_, objs, trades, last, pre, outcome, dangling, fills>>

\* ------------------------------------------------------------ helpers
\* Faulty variant: never more than one unit
MinOneUnit(a, b) == IF a >= 1 /\ b >= 1 THEN 1 ELSE 0
\* Faulty variant: the larger of the two
MinAsMax(a, b) == IF a <= b THEN b ELSE a
Min(a, b) == IF a <= b THEN a ELSE b
MaxOf(S) == CHOOSE x \in S : \A y \in S : y <= x
MinOf(S) == CHOOSE x \in S : \A y \in S : x <= y

\* std::map erase(key) and operator[] assignment
MapErase(f, k) == [x \in DOMAIN f \ {k} |-> f[x]]
MapPut(f, k, v) == [x \in DOMAIN f \cup {k} |-> IF x = k THEN v ELSE f[x]]

\* Faulty variant: the head of the list is erased, whatever the iterator designates
ListErasePopFront(list, node) == Tail(list)
\* std::list: erase(iterator) removes the node the iterator designates;
\* front, pop_front and push_back
ListErase(list, node) == SelectSeq(list, LAMBDA x : x # node)
\* Faulty variant: the newest order of the level is taken instead of the oldest
FrontAsBack(list) == list[Len(list)]
Front(list) == Head(list)
PopFront(list) == Tail(list)
PushBack(list, x) == Append(list, x)

Range(s) == {s[i] : i \in 1..Len(s)}

\* An Order object.
Order(orderType, orderId, side, price, quantity) ==
    [orderType_ |-> orderType, orderId_ |-> orderId, side_ |-> side,
     price_ |-> price, initialQuantity_ |-> quantity, remainingQuantity_ |-> quantity]

IsFilled(order) == order.remainingQuantity_ = 0

\* Faulty variant: a fill takes all the order has left
FillAll(order, quantity) ==
    IF quantity > order.remainingQuantity_
    THEN [threw |-> TRUE, order |-> order]
    ELSE [threw |-> FALSE,
          order |-> [order EXCEPT !.remainingQuantity_ = 0]]

\* Order::Fill: the order after the fill, or the logic_error it throws
Fill(order, quantity) ==
    IF quantity > order.remainingQuantity_
    THEN [threw |-> TRUE, order |-> order]
    ELSE [threw |-> FALSE,
          order |-> [order EXCEPT !.remainingQuantity_ = @ - quantity]]

\* The book a call works on: the member containers, the objects they own, the
\* trades collected, how the call stands and where it read freed memory.
Book(b, a, o, h) ==
    [bids_ |-> b, asks_ |-> a, orders_ |-> o, objs |-> h,
     trades |-> <<>>, outcome |-> "ok", dangling |-> {}]

\* shared_ptr ownership: an Order lives while a list or an index entry holds
\* it. Within a call the bytes of a freed Order stay where they were (objs keeps
\* them); when the call is over the freed Orders are gone (Release).
Owned(b) ==
    UNION {Range(b.bids_[p]) : p \in DOMAIN b.bids_}
    \cup UNION {Range(b.asks_[p]) : p \in DOMAIN b.asks_}
    \cup {b.orders_[i].order_ : i \in DOMAIN b.orders_}

Release(b) == [b EXCEPT !.objs = [x \in DOMAIN b.objs \cap Owned(b) |-> b.objs[x]]]

\* bids_.begin() and asks_.begin(): bids_ is ordered by std::greater, asks_ by
\* std::less, so the first key is the highest bid, the lowest ask
\* Faulty variant: the lowest bid is taken for the best
WorstBid(b) == MinOf(DOMAIN b.bids_)
BestBid(b) == MaxOf(DOMAIN b.bids_)
\* Faulty variant: the highest ask is taken for the best
WorstAsk(b) == MaxOf(DOMAIN b.asks_)
BestAsk(b) == MinOf(DOMAIN b.asks_)

\* Faulty variant: the index entry is left behind
EraseOrderForgotten(b, orderId) == b

\* orders_.erase(id)
EraseOrder(b, orderId) == [b EXCEPT !.orders_ = MapErase(@, orderId)]

\* ------------------------------------------------------------ CanMatch
\* Faulty variant: a price equal to the best opposite price does not count as crossing
CanMatchStrict(b, side, price) ==
    IF side = "Buy"
    THEN IF DOMAIN b.asks_ = {} THEN FALSE
         ELSE price > BestAsk(b)
    ELSE IF DOMAIN b.bids_ = {} THEN FALSE
         ELSE price < BestBid(b)

CanMatch(b, side, price) ==
    IF side = "Buy"
    THEN IF DOMAIN b.asks_ = {} THEN FALSE
         ELSE price >= BestAsk(b)
    ELSE IF DOMAIN b.bids_ = {} THEN FALSE
         ELSE price <= BestBid(b)

\* --------------------------------------------------------- CancelOrder
\* Faulty variant: the level stays in its map when its last order is erased
CancelOrderKeepsLevel(b, orderId, trap) ==
    IF orderId \notin DOMAIN b.orders_ THEN b
    ELSE
      LET entry == b.orders_[orderId]
          b1 == [EraseOrder(b, orderId) EXCEPT
                          !.dangling = @ \cup {"CancelOrder:331"}]
          order == b1.objs[entry.order_]
          price == order.price_
      IN
      IF trap THEN [b1 EXCEPT !.outcome = "trap"]
      ELSE IF order.side_ = "Sell"
           THEN [b1 EXCEPT !.asks_ = MapPut(@, price, ListErase(@[price], entry.location_))]
           ELSE [b1 EXCEPT !.bids_ = MapPut(@, price, ListErase(@[price], entry.location_))]

\* The order and iterator references are bound to the index entry (line 328),
\* the entry is erased (line 329), and both are read afterwards (331-350).
CancelOrder(b, orderId, trap) ==
    IF orderId \notin DOMAIN b.orders_ THEN b
    ELSE
      LET entry == b.orders_[orderId]
          b1 == [EraseOrder(b, orderId) EXCEPT
                          !.dangling = @ \cup {"CancelOrder:331"}]
      IN
      IF trap THEN [b1 EXCEPT !.outcome = "trap"]
      ELSE
        LET order == b1.objs[entry.order_]
            price == order.price_
        IN
        IF order.side_ = "Sell"
        THEN IF price \notin DOMAIN b1.asks_
             THEN [b1 EXCEPT !.outcome = "out_of_range"]
             ELSE LET orders == ListErase(b1.asks_[price], entry.location_)
                  IN [b1 EXCEPT !.asks_ =
                        IF orders = <<>> THEN MapErase(@, price)
                        ELSE MapPut(@, price, orders)]
        ELSE IF price \notin DOMAIN b1.bids_
             THEN [b1 EXCEPT !.outcome = "out_of_range"]
             ELSE LET orders == ListErase(b1.bids_[price], entry.location_)
                  IN [b1 EXCEPT !.bids_ =
                        IF orders = <<>> THEN MapErase(@, price)
                        ELSE MapPut(@, price, orders)]

\* --------------------------------------------------------- MatchOrders
Trade(bidTrade, askTrade) == [bidTrade_ |-> bidTrade, askTrade_ |-> askTrade]
TradeInfo(orderId, price, quantity) ==
    [orderId_ |-> orderId, price_ |-> price, quantity_ |-> quantity]

\* Faulty variant: both sides record one clearing price, the ask's
MakeTradeOnePrice(bid, ask, quantity) ==
    Trade(TradeInfo(bid.orderId_, ask.price_, quantity),
          TradeInfo(ask.orderId_, ask.price_, quantity))

\* Lines 257-260: each side of the trade records its own order's id and price.
MakeTrade(bid, ask, quantity) ==
    Trade(TradeInfo(bid.orderId_, bid.price_, quantity),
          TradeInfo(ask.orderId_, ask.price_, quantity))

RECURSIVE InnerLoop(_, _, _, _)
RECURSIVE OuterLoop(_, _)

\* One pass of the body of the inner loop (lines 226-260) on the levels
\* bidPrice and askPrice, whose queues are both non-empty.
\* bid and ask are references to the list heads: once the head is popped they
\* are dangling, and lines 241, 247, 258, 259 read through them; once a level
\* is erased the loop condition (line 224) reads the size of its erased list.
Pass(b, bidPrice, askPrice, trap) ==
    LET bid == Front(b.bids_[bidPrice])
        ask == Front(b.asks_[askPrice])
        quantity == Min(b.objs[bid].remainingQuantity_, b.objs[ask].remainingQuantity_)
        bidFill == Fill(b.objs[bid], quantity)
        askFill == Fill(b.objs[ask], quantity)
    IN
    IF bidFill.threw \/ askFill.threw
    THEN [b EXCEPT !.outcome = "logic_error",
                   !.objs = IF bidFill.threw THEN @
                            ELSE [@ EXCEPT ![bid] = bidFill.order]]
    ELSE
      \* bidOrder and askOrder are the two objects after lines 234-235; the
      \* reads at lines 241, 247, 258 and 259 are reads of these objects
      LET bidOrder == bidFill.order
          askOrder == askFill.order
          b1 == [b EXCEPT !.objs = [@ EXCEPT ![bid] = bidOrder, ![ask] = askOrder]]
          \* the lists bids and asks (lines 216-217) after lines 240 and 246
          bids == IF IsFilled(bidOrder) THEN PopFront(b.bids_[bidPrice])
                                        ELSE b.bids_[bidPrice]
          asks == IF IsFilled(askOrder) THEN PopFront(b.asks_[askPrice])
                                        ELSE b.asks_[askPrice]
          \* lines 238-242
          b2 == IF IsFilled(bidOrder)
                THEN [b1 EXCEPT !.bids_ = MapPut(@, bidPrice, bids),
                                !.dangling = @ \cup {"MatchOrders:241"}]
                ELSE b1
          b3 == IF IsFilled(bidOrder)
                THEN EraseOrder(b2, bidOrder.orderId_)
                ELSE b2
          \* lines 244-248
          b4 == IF IsFilled(askOrder)
                THEN [b3 EXCEPT !.asks_ = MapPut(@, askPrice, asks),
                                !.dangling = @ \cup {"MatchOrders:247"}]
                ELSE b3
          b5 == IF IsFilled(askOrder)
                THEN EraseOrder(b4, askOrder.orderId_)
                ELSE b4
          bidsEmpty == bids = <<>>
          asksEmpty == asks = <<>>
          \* lines 250-254
          b6 == [b5 EXCEPT !.bids_ = IF bidsEmpty THEN MapErase(@, bidPrice) ELSE @,
                           !.asks_ = IF asksEmpty THEN MapErase(@, askPrice) ELSE @]
          \* lines 257-260
          b7 == [b6 EXCEPT
                   !.trades = Append(@, MakeTrade(bidOrder, askOrder, quantity)),
                   !.dangling = @ \cup (IF IsFilled(bidOrder) THEN {"MatchOrders:258"} ELSE {})
                                  \cup (IF IsFilled(askOrder) THEN {"MatchOrders:259"} ELSE {})]
          \* line 224, read again: the erased list still reads as empty
          b8 == [b7 EXCEPT !.dangling = @ \cup
                   (IF bidsEmpty \/ asksEmpty THEN {"MatchOrders:224"} ELSE {})]
      IN
      IF trap /\ IsFilled(bidOrder) THEN [b2 EXCEPT !.outcome = "trap"]
      ELSE IF trap /\ IsFilled(askOrder) THEN [b4 EXCEPT !.outcome = "trap"]
      ELSE b8

\* The inner loop (lines 224-261): passes on the same two levels until the
\* list of one of them is empty, which is when the pass erased the level.
InnerLoop(b, bidPrice, askPrice, trap) ==
    LET r == Pass(b, bidPrice, askPrice, trap)
    IN IF r.outcome # "ok" THEN r
       ELSE IF bidPrice \notin DOMAIN r.bids_ \/ askPrice \notin DOMAIN r.asks_
            THEN OuterLoop(r, trap)
            ELSE InnerLoop(r, bidPrice, askPrice, trap)

\* The outer loop (lines 209-262).
OuterLoop(b, trap) ==
    IF DOMAIN b.bids_ = {} \/ DOMAIN b.asks_ = {} THEN b
    ELSE
      LET bidPrice == BestBid(b)
          askPrice == BestAsk(b)
      IN
      IF bidPrice < askPrice THEN b
      ELSE IF b.bids_[bidPrice] = <<>> \/ b.asks_[askPrice] = <<>>
           THEN [b EXCEPT !.outcome = "hang"]
           ELSE InnerLoop(b, bidPrice, askPrice, trap)

\* Lines 264-278: the head of the best level of each side, when fill-and-kill,
\* is cancelled.
SweepBids(b, trap) ==
    IF b.outcome # "ok" \/ DOMAIN b.bids_ = {} THEN b
    ELSE LET order == b.objs[Front(b.bids_[BestBid(b)])]
         IN IF order.orderType_ = "FillandKill"
            THEN CancelOrder(b, order.orderId_, trap)
            ELSE b

SweepAsks(b, trap) ==
    IF b.outcome # "ok" \/ DOMAIN b.asks_ = {} THEN b
    ELSE LET order == b.objs[Front(b.asks_[BestAsk(b)])]
         IN IF order.orderType_ = "FillandKill"
            THEN CancelOrder(b, order.orderId_, trap)
            ELSE b

\* Faulty variant: the sweep of lines 264-278 is missing
MatchOrdersNoSweep(b, trap) == OuterLoop([b EXCEPT !.trades = <<>>], trap)

MatchOrders(b, trap) ==
    SweepAsks(SweepBids(OuterLoop([b EXCEPT !.trades = <<>>], trap), trap), trap)

\* ------------------------------------------------------------ AddOrder
OrderEntry(order, location) == [order_ |-> order, location_ |-> location]

\* Faulty variant: the order joins its level's list and the index is not told
InsertUnindexed(b, order) ==
    LET id == order.orderId_
        price == order.price_
        b1 == [b EXCEPT !.objs = MapPut(@, id, order)]
    IN IF order.side_ = "Buy"
       THEN [b1 EXCEPT !.bids_ = MapPut(@, price,
                 PushBack(IF price \in DOMAIN @ THEN @[price] ELSE <<>>, id))]
       ELSE [b1 EXCEPT !.asks_ = MapPut(@, price,
                 PushBack(IF price \in DOMAIN @ THEN @[price] ELSE <<>>, id))]

\* Lines 294-316: the order joins the tail of its level's list, the index
\* records the pointer and the position of the new node.
Insert(b, order) ==
    LET id == order.orderId_
        price == order.price_
        b1 == [b EXCEPT !.objs = MapPut(@, id, order)]
        b2 == IF order.side_ = "Buy"
              THEN [b1 EXCEPT !.bids_ = MapPut(@, price,
                        PushBack(IF price \in DOMAIN @ THEN @[price] ELSE <<>>, id))]
              ELSE [b1 EXCEPT !.asks_ = MapPut(@, price,
                        PushBack(IF price \in DOMAIN @ THEN @[price] ELSE <<>>, id))]
    IN [b2 EXCEPT !.orders_ = MapPut(@, id, OrderEntry(id, id))]

\* Faulty variant: the duplicate check of line 287 is missing
AddOrderNoDuplicateCheck(b, order, trap) ==
    IF order.orderType_ = "FillandKill" /\ ~CanMatch(b, order.side_, order.price_)
    THEN [b EXCEPT !.trades = <<>>]
    ELSE MatchOrders(Insert(b, order), trap)

AddOrder(b, order, trap) ==
    IF order.orderId_ \in DOMAIN b.orders_ THEN [b EXCEPT !.trades = <<>>]
    ELSE IF order.orderType_ = "FillandKill" /\ ~CanMatch(b, order.side_, order.price_)
         THEN [b EXCEPT !.trades = <<>>]
         ELSE MatchOrders(Insert(b, order), trap)

\* ---------------------------------------------------------- MatchOrder
OrderModify(orderId, side, price, quantity) ==
    [orderId_ |-> orderId, side_ |-> side, price_ |-> price, quantity_ |-> quantity]

ToOrderPointer(modify, type) ==
    Order(type, modify.orderId_, modify.side_, modify.price_, modify.quantity_)

\* Faulty variant: the existing order is not cancelled before the new one is added
MatchOrderNoCancel(b, modify, trap) ==
    IF modify.orderId_ \notin DOMAIN b.orders_ THEN [b EXCEPT !.trades = <<>>]
    ELSE AddOrder(b, ToOrderPointer(modify,
                     b.objs[b.orders_[modify.orderId_].order_].orderType_), trap)

\* Faulty variant: a modify of an unknown identifier adds the order
MatchOrderUpsert(b, modify, trap) ==
    IF modify.orderId_ \notin DOMAIN b.orders_
    THEN AddOrder(b, ToOrderPointer(modify, "GoodTillCancel"), trap)
    ELSE AddOrder(CancelOrder(b, modify.orderId_, trap),
                  ToOrderPointer(modify,
                     b.objs[b.orders_[modify.orderId_].order_].orderType_), trap)

\* existingOrder is a reference into the index entry (line 363); CancelOrder
\* erases the entry and frees the order; line 369 reads the order type
\* through the reference: the bytes of the freed order.
MatchOrder(b, modify, trap) ==
    IF modify.orderId_ \notin DOMAIN b.orders_ THEN [b EXCEPT !.trades = <<>>]
    ELSE
      LET existingOrder == b.orders_[modify.orderId_].order_
          b1 == CancelOrder(b, modify.orderId_, trap)
          b2 == [b1 EXCEPT !.dangling = @ \cup {"MatchOrder:369"}]
      IN
      IF b1.outcome # "ok" THEN b1
      ELSE AddOrder(b2, ToOrderPointer(modify, b2.objs[existingOrder].orderType_), trap)

\* ---------------------------------------------------------------- Size
Size(b) == Cardinality(DOMAIN b.orders_)

\* ------------------------------------------------------- GetOrderInfos
\* A uint32 is written <<high half, low half>>: the true sum of a level can
\* exceed every integer the checker holds, the halves never do.
Halves(q) == <<q \div Half, q % Half>>

\* runningSum + order->GetRemainingQuantity() in Quantity arithmetic (line 385):
\* the carry out of the high half is lost.
AddQuantity(runningSum, q) ==
    LET lo == runningSum[2] + Halves(q)[2]
        hi == runningSum[1] + Halves(q)[1] + lo \div Half
    IN <<hi % Half, lo % Half>>

\* std::accumulate over the list, from (Quantity)0 (lines 383-385)
RECURSIVE Accumulate(_, _, _)
Accumulate(orders, objects, runningSum) ==
    IF orders = <<>> THEN runningSum
    ELSE Accumulate(Tail(orders), objects,
                    AddQuantity(runningSum, objects[Head(orders)].remainingQuantity_))

LevelInfo(price, quantity) == [price_ |-> price, quantity_ |-> quantity]

CreateLevelInfos(price, orders, objects) ==
    LevelInfo(price, Accumulate(orders, objects, <<0, 0>>))

\* The keys of a map in iteration order: descending for bids_, ascending for asks_
RECURSIVE Descending(_)
Descending(S) ==
    IF S = {} THEN <<>> ELSE <<MaxOf(S)>> \o Descending(S \ {MaxOf(S)})
RECURSIVE Ascending(_)
Ascending(S) ==
    IF S = {} THEN <<>> ELSE <<MinOf(S)>> \o Ascending(S \ {MinOf(S)})

GetOrderInfos(b) ==
    LET bidKeys == Descending(DOMAIN b.bids_)
        askKeys == Ascending(DOMAIN b.asks_)
    IN [bids_ |-> [i \in 1..Len(bidKeys) |->
                     CreateLevelInfos(bidKeys[i], b.bids_[bidKeys[i]], b.objs)],
        asks_ |-> [i \in 1..Len(askKeys) |->
                     CreateLevelInfos(askKeys[i], b.asks_[askKeys[i]], b.objs)]]

\* ------------------------------------------------------- the state machine
Cur == Book(bids_, asks_, orders_, objs)

Empty == [x \in {} |-> <<>>]
NoCall == [op |-> "none"]

Init ==
    /\ bids_ = Empty
    /\ asks_ = Empty
    /\ orders_ = Empty
    /\ objs = Empty
    /\ trades = <<>>
    /\ last = NoCall
    /\ pre = NoCall
    /\ outcome = "ok"
    /\ dangling = {}
    /\ fills = Empty

\* A read through a dangling reference has two outcomes: the bytes of the freed
\* element are still there and the call goes on, or the build detects the
\* read and the program stops (trap). A call that traps, traps at its first
\* such read.
\* The outcomes of a call: what it does when no read traps and, if it reads
\* through a dangling reference at all, what it does when the first one traps.
Outcomes(plain, trapped) == IF plain.dangling = {} THEN {plain} ELSE {plain, trapped}

\* No call is in progress and the caller holds nothing a call returned.
Idle == outcome = "ok" /\ last.op = "none"

\* The quantity the trades ts executed for the order id.
RECURSIVE TradedIn(_, _)
TradedIn(ts, id) ==
    IF ts = <<>> THEN 0
    ELSE (IF Head(ts).bidTrade_.orderId_ = id THEN Head(ts).bidTrade_.quantity_ ELSE 0)
         + (IF Head(ts).askTrade_.orderId_ = id THEN Head(ts).askTrade_.quantity_ ELSE 0)
         + TradedIn(Tail(ts), id)

\* The order the call leaves under id is a new Order object: AddOrder of an
\* identifier that was not live, or the order MatchOrder puts in place of the
\* one it cancelled.
NewOrder(call, id) ==
    \/ id \notin DOMAIN orders_
    \/ call.op = "MatchOrder" /\ call.modify.orderId_ = id

\* The call returned or failed with book r.
Commit(r, call) ==
    /\ fills' = IF r.outcome = "ok"
                THEN [id \in DOMAIN r.orders_ |->
                         (IF NewOrder(call, id) THEN 0 ELSE fills[id]) + TradedIn(r.trades, id)]
                ELSE Empty
    /\ bids_' = r.bids_
    /\ asks_' = r.asks_
    /\ orders_' = r.orders_
    /\ objs' = Release(r).objs
    /\ trades' = r.trades
    /\ outcome' = r.outcome
    /\ dangling' = r.dangling
    /\ last' = IF r.outcome = "ok" THEN call ELSE [op |-> call.op]
    /\ pre' = IF r.outcome = "ok" THEN Cur ELSE NoCall

DoAddOrder(Q) ==
    \E type \in OrderTypes, id \in OrderIds, side \in Sides,
       price \in Prices, quantity \in Q :
        LET order == Order(type, id, side, price, quantity) IN
        /\ Idle
        /\ \E r \in Outcomes(AddOrder(Cur, order, FALSE), AddOrder(Cur, order, TRUE)) :
              Commit(r, [op |-> "AddOrder", order |-> order])

DoCancelOrder ==
    \E id \in OrderIds :
        /\ Idle
        /\ \E r \in Outcomes(CancelOrder(Cur, id, FALSE), CancelOrder(Cur, id, TRUE)) :
              Commit(r, [op |-> "CancelOrder", orderId |-> id])

DoMatchOrder(Q) ==
    \E id \in OrderIds, side \in Sides, price \in Prices, quantity \in Q :
        LET modify == OrderModify(id, side, price, quantity) IN
        /\ Idle
        /\ \E r \in Outcomes(MatchOrder(Cur, modify, FALSE), MatchOrder(Cur, modify, TRUE)) :
              Commit(r, [op |-> "MatchOrder", modify |-> modify])

\* The caller is done with what the call returned and is ready to call again.
Return ==
    /\ outcome = "ok"
    /\ last.op \notin {"none", "MatchOrders"}
    /\ last' = NoCall
    /\ pre' = NoCall
    /\ trades' = <<>>
    /\ dangling' = {}
    /\ UNCHANGED <<bids_, asks_, orders_, objs, outcome, fills>>

Next == DoAddOrder(Quantities) \/ DoCancelOrder \/ DoMatchOrder(Quantities) \/ Return

Spec == Init /\ [][Next]_vars

\* The same book driven with quantities near the top of the uint32 range.
NextWide ==
    DoAddOrder(WideQuantities) \/ DoCancelOrder \/ DoMatchOrder(WideQuantities) \/ Return

SpecWide == Init /\ [][NextWide]_vars

\* ------------------------------------------- the matching loop, pass by pass
\* AddOrder and MatchOrder once more, with the loop of MatchOrders taken one
\* pass at a time: the call is in the loop while last.op = "MatchOrders".
\* Only the calls that reach the loop are taken: those that return before it
\* (lines 288, 292, 360) are whole in DoAddOrder and DoMatchOrder. What the
\* call returns is dropped at once: the caller is ready to call again.

\* The book of the call in progress, with the trades collected so far.
Prog == [Cur EXCEPT !.trades = trades, !.dangling = dangling]

InMatching == outcome = "ok" /\ last.op = "MatchOrders"

\* Lines 287-292: AddOrder returns without inserting.
Rejects(b, order) ==
    \/ order.orderId_ \in DOMAIN b.orders_
    \/ order.orderType_ = "FillandKill" /\ ~CanMatch(b, order.side_, order.price_)

\* The loop is entered with book r (line 319, after the insertion of the
\* order id); reserved is the capacity line 207 reserves for the trades.
Enter(r, id) ==
    /\ bids_' = r.bids_
    /\ asks_' = r.asks_
    /\ orders_' = r.orders_
    /\ objs' = Release(r).objs
    /\ trades' = <<>>
    /\ outcome' = "ok"
    /\ dangling' = r.dangling
    /\ last' = [op |-> "MatchOrders", id |-> id, reserved |-> Size(r)]
    /\ pre' = NoCall
    /\ fills' = [x \in DOMAIN fills \ {id} |-> fills[x]]

\* The program stopped inside the call: nothing of its state is left.
Stop(r) ==
    /\ bids_' = Empty
    /\ asks_' = Empty
    /\ orders_' = Empty
    /\ objs' = Empty
    /\ trades' = <<>>
    /\ outcome' = r.outcome
    /\ dangling' = r.dangling
    /\ last' = [op |-> "MatchOrders"]
    /\ pre' = NoCall
    /\ fills' = Empty

BeginAddOrder(Q) ==
    \E type \in OrderTypes, id \in OrderIds, side \in Sides,
       price \in Prices, quantity \in Q :
        LET order == Order(type, id, side, price, quantity)
        IN /\ Idle
           /\ ~Rejects(Cur, order)
           /\ Enter(Insert(Cur, order), id)

BeginMatchOrder(Q) ==
    \E id \in OrderIds, side \in Sides, price \in Prices, quantity \in Q :
        LET modify == OrderModify(id, side, price, quantity)
        IN /\ Idle
           /\ id \in DOMAIN orders_
           /\ \E c \in Outcomes(CancelOrder(Cur, id, FALSE), CancelOrder(Cur, id, TRUE)) :
                 IF c.outcome # "ok" THEN Stop(c)
                 ELSE LET c1 == [c EXCEPT !.dangling = @ \cup {"MatchOrder:369"}]
                          order == ToOrderPointer(modify,
                                      c1.objs[orders_[id].order_].orderType_)
                      IN /\ ~Rejects(c1, order)
                         /\ Enter(Insert(c1, order), id)

\* Lines 212-221 and 224: the loop goes on.
LoopGoesOn ==
    /\ DOMAIN bids_ # {}
    /\ DOMAIN asks_ # {}
    /\ BestBid(Cur) >= BestAsk(Cur)

\* One pass of the loop body, on the heads of the two best levels.
LoopIteration ==
    /\ InMatching
    /\ LoopGoesOn
    /\ bids_[BestBid(Cur)] # <<>>
    /\ asks_[BestAsk(Cur)] # <<>>
    /\ \E b \in {Prog} :
       \E plain \in {Pass(b, BestBid(b), BestAsk(b), FALSE)},
          trapped \in {Pass(b, BestBid(b), BestAsk(b), TRUE)} :
       \E r \in Outcomes(plain, trapped) :
          IF r.outcome # "ok" THEN Stop(r)
          ELSE /\ bids_' = r.bids_
               /\ asks_' = r.asks_
               /\ orders_' = r.orders_
               /\ objs' = Release(r).objs
               /\ trades' = r.trades
               /\ dangling' = r.dangling
               /\ UNCHANGED <<outcome, last, pre, fills>>

\* The loop is left (lines 213, 221), the sweep of lines 264-278 is done and
\* the call returns.
EndMatchOrders ==
    /\ InMatching
    /\ ~LoopGoesOn
    /\ \E b \in {Prog} :
       \E plain \in {SweepAsks(SweepBids(b, FALSE), FALSE)},
          trapped \in {SweepAsks(SweepBids(b, TRUE), TRUE)} :
       \E r \in Outcomes(plain, trapped) :
          IF r.outcome # "ok" THEN Stop(r)
          ELSE /\ bids_' = r.bids_
               /\ asks_' = r.asks_
               /\ orders_' = r.orders_
               /\ objs' = Release(r).objs
               /\ trades' = <<>>
               /\ dangling' = {}
               /\ last' = NoCall
               /\ fills' = [id \in DOMAIN r.orders_ |->
                               (IF id \in DOMAIN fills THEN fills[id] ELSE 0)
                                 + TradedIn(r.trades, id)]
               /\ UNCHANGED <<outcome, pre>>

NextSteps ==
    \/ BeginAddOrder(Quantities)
    \/ BeginMatchOrder(Quantities)
    \/ LoopIteration
    \/ EndMatchOrders

\* The program runs on: a call in the loop makes its next pass or returns.
SpecSteps ==
    Init /\ [][NextSteps]_vars /\ WF_vars(LoopIteration) /\ WF_vars(EndMatchOrders)

\* ===================================================================
\* The claims. Each is a predicate of the state a call leaves: the book, what
\* the call returned (trades), the call (last) and the book before it (pre).
\* A call that stopped at a trapped read returned nothing: outcome # "ok".

Returned(op) == outcome = "ok" /\ last.op = op
Submits == outcome = "ok" /\ last.op \in {"AddOrder", "MatchOrder"}

SameBook ==
    /\ bids_ = pre.bids_
    /\ asks_ = pre.asks_
    /\ orders_ = pre.orders_
    /\ objs = pre.objs

\* The identifier the call named.
CallId ==
    IF last.op = "AddOrder" THEN last.order.orderId_
    ELSE IF last.op = "MatchOrder" THEN last.modify.orderId_
    ELSE last.orderId

\* The orders that rest while the submitted order is matched: those of the book
\* before the call, less the one a modify cancels first.
RestingIds ==
    DOMAIN pre.orders_ \ (IF last.op = "MatchOrder" THEN {CallId} ELSE {})

LevelsOf(book, side) == IF side = "Buy" THEN book.bids_ ELSE book.asks_

Pos(list, x) == CHOOSE i \in 1..Len(list) : list[i] = x

\* x is ahead of y in the book before the call: same side, and a better price
\* or the same price and an earlier place in the level's queue.
PriorityOver(x, y) ==
    LET ox == pre.objs[x]
        oy == pre.objs[y]
        level == LevelsOf(pre, ox.side_)[ox.price_]
    IN /\ x # y
       /\ ox.side_ = oy.side_
       /\ \/ (ox.side_ = "Buy" /\ ox.price_ > oy.price_)
          \/ (ox.side_ = "Sell" /\ ox.price_ < oy.price_)
          \/ (ox.price_ = oy.price_ /\ Pos(level, x) < Pos(level, y))

\* Trade t names order id on the given side.
Names(t, id, side) ==
    IF side = "Buy" THEN t.bidTrade_.orderId_ = id ELSE t.askTrade_.orderId_ = id

\* The quantity the first n trades executed for order id of the given side.
RECURSIVE Executed(_, _, _)
Executed(id, side, n) ==
    IF n = 0 THEN 0
    ELSE Executed(id, side, n - 1)
         + (IF Names(trades[n], id, side) THEN trades[n].bidTrade_.quantity_ ELSE 0)

Touched(id, side) == \E i \in 1..Len(trades) : Names(trades[i], id, side)

\* C1: price-time priority. When a submission trades with a resting order y,
\* every order x that was ahead of y (better price, or same price and earlier in
\* the queue) has been filled completely, by trades that all come before y's
\* first; and an order that comes to rest joins the tail of its level, so the
\* place in the queue is the order of arrival.
C1_PriceTimePriority ==
    Submits =>
      /\ \A x \in RestingIds : \A y \in RestingIds :
            LET side == pre.objs[x].side_ IN
            (PriorityOver(x, y) /\ Touched(y, side)) =>
               /\ x \notin DOMAIN orders_
               /\ Touched(x, side)
               /\ Executed(x, side, Len(trades)) = pre.objs[x].remainingQuantity_
               /\ \A i \in 1..Len(trades) : \A j \in 1..Len(trades) :
                     (Names(trades[i], x, side) /\ Names(trades[j], y, side)) => i < j
      /\ (CallId \notin RestingIds /\ CallId \in DOMAIN orders_) =>
            LET o == objs[orders_[CallId].order_]
                level == LevelsOf(Cur, o.side_)[o.price_]
            IN level[Len(level)] = CallId

\* Two orders rest at one price, the submission fills the first and goes on to
\* trade with the second.
C1_Witness ==
    /\ Returned("AddOrder")
    /\ \E x \in RestingIds : \E y \in RestingIds :
          /\ pre.objs[x].price_ = pre.objs[y].price_
          /\ PriorityOver(x, y)
          /\ Touched(y, pre.objs[y].side_)
          /\ y \in DOMAIN orders_

\* C2: AddOrder of an identifier that is live returns no trades and leaves both
\* sides, the index and every resting order as they were.
C2_DuplicateRejected ==
    (Returned("AddOrder") /\ CallId \in DOMAIN pre.orders_) =>
        (trades = <<>> /\ SameBook)

\* The submitted price crosses a level of the opposite side.
Crosses(book, side, price) ==
    IF side = "Buy" THEN \E p \in DOMAIN book.asks_ : price >= p
    ELSE \E p \in DOMAIN book.bids_ : price <= p

\* A duplicate of the other side that would trade if it were let in.
C2_Witness ==
    /\ Returned("AddOrder")
    /\ CallId \in DOMAIN pre.orders_
    /\ last.order.side_ # pre.objs[CallId].side_
    /\ Crosses(pre, last.order.side_, last.order.price_)

\* C3: a fill-and-kill order with a fresh identifier is let in (and trades)
\* exactly when its price crosses the best price of the opposite side; when it
\* does not, the call returns no trades and the book and its size are unchanged.
C3_FillAndKillAdmission ==
    (Returned("AddOrder") /\ last.order.orderType_ = "FillandKill"
        /\ CallId \notin DOMAIN pre.orders_) =>
      LET crosses == Crosses(pre, last.order.side_, last.order.price_)
          admitted == trades # <<>> /\ Names(trades[1], CallId, last.order.side_)
      IN /\ admitted <=> crosses
         /\ ~crosses => (trades = <<>> /\ SameBook /\ Size(Cur) = Size(pre))

\* A fill-and-kill buy below the best ask is turned away.
C3_Witness ==
    /\ Returned("AddOrder")
    /\ last.order.orderType_ = "FillandKill"
    /\ CallId \notin DOMAIN pre.orders_
    /\ last.order.side_ = "Buy"
    /\ DOMAIN pre.asks_ # {}
    /\ trades = <<>>

\* No fill-and-kill order is in the index or in a queue of book.
NoFillAndKill(book) ==
    /\ \A id \in DOMAIN book.orders_ :
          book.objs[book.orders_[id].order_].orderType_ # "FillandKill"
    /\ \A side \in Sides : \A p \in DOMAIN LevelsOf(book, side) :
          \A i \in 1..Len(LevelsOf(book, side)[p]) :
             book.objs[LevelsOf(book, side)[p][i]].orderType_ # "FillandKill"

\* C4: after every call that returns, no fill-and-kill order is in the index or
\* in a queue; and when the matching loop leaves a fill-and-kill order unfilled,
\* that order is alone in the best level of its side, where the sweep looks.
C4_NoFillAndKillRests ==
    outcome = "ok" =>
      /\ NoFillAndKill(Cur)
      /\ (Returned("AddOrder") /\ last.order.orderType_ = "FillandKill"
            /\ CallId \notin DOMAIN pre.orders_
            /\ Crosses(pre, last.order.side_, last.order.price_)) =>
            LET loop == OuterLoop(Insert(pre, last.order), FALSE)
                levels == LevelsOf(loop, last.order.side_)
                price == last.order.price_
            IN CallId \in DOMAIN loop.orders_ =>
                 /\ price \in DOMAIN levels
                 /\ levels[price] = <<CallId>>
                 /\ \A p \in DOMAIN levels :
                       IF last.order.side_ = "Buy" THEN p <= price ELSE p >= price

\* A fill-and-kill order traded part of its quantity and the rest is gone.
C4_Witness ==
    /\ Returned("AddOrder")
    /\ last.order.orderType_ = "FillandKill"
    /\ CallId \notin DOMAIN pre.orders_
    /\ trades # <<>>
    /\ Executed(CallId, last.order.side_, Len(trades)) < last.order.initialQuantity_
    /\ CallId \notin DOMAIN orders_

\* The levels of one side once order id is taken out: the other orders keep
\* their places, a level left empty is gone.
Without(levels, id) ==
    LET stripped == [p \in DOMAIN levels |-> SelectSeq(levels[p], LAMBDA x : x # id)]
    IN [p \in {q \in DOMAIN levels : stripped[q] # <<>>} |-> stripped[p]]

Except(f, id) == [x \in DOMAIN f \ {id} |-> f[x]]

\* C5: CancelOrder of a live order, when it returns, has taken exactly that order
\* out of its queue and out of the index, returned no trades, dropped the level
\* iff it became empty, left every other order where and as it was, and Size()
\* is one less.
C5_CancelRemovesExactlyOne ==
    (Returned("CancelOrder") /\ CallId \in DOMAIN pre.orders_) =>
      /\ trades = <<>>
      /\ orders_ = Except(pre.orders_, CallId)
      /\ bids_ = Without(pre.bids_, CallId)
      /\ asks_ = Without(pre.asks_, CallId)
      /\ objs = Except(pre.objs, CallId)
      /\ Size(Cur) = Size(pre) - 1
      /\ LET o == pre.objs[CallId]
             before == LevelsOf(pre, o.side_)[o.price_]
         IN (o.price_ \in DOMAIN LevelsOf(Cur, o.side_)) <=> (Len(before) > 1)

\* The cancelled order was not the head of its level.
C5_Witness ==
    /\ Returned("CancelOrder")
    /\ CallId \in DOMAIN pre.orders_
    /\ LET o == pre.objs[CallId]
           before == LevelsOf(pre, o.side_)[o.price_]
       IN Len(before) > 1 /\ before[1] # CallId

\* C6: CancelOrder and MatchOrder of an identifier that is not live leave the
\* book as it was, MatchOrder returns no trades; and CancelOrder of the same
\* identifier once more changes nothing and reads nothing.
C6_UnknownIdIsNoOp ==
    /\ (outcome = "ok" /\ last.op \in {"CancelOrder", "MatchOrder"}
          /\ CallId \notin DOMAIN pre.orders_) => (SameBook /\ trades = <<>>)
    /\ Returned("CancelOrder") =>
          LET again == CancelOrder(Cur, CallId, FALSE)
          IN /\ again.bids_ = bids_
             /\ again.asks_ = asks_
             /\ again.orders_ = orders_
             /\ again.objs = objs
             /\ again.outcome = "ok"
             /\ again.dangling = {}

\* An identifier that is not live is modified while other orders rest.
C6_Witness ==
    /\ Returned("MatchOrder")
    /\ CallId \notin DOMAIN pre.orders_
    /\ DOMAIN pre.orders_ # {}

\* C7: MatchOrder of a live identifier, when it returns, leaves the trades and
\* the book that AddOrder leaves when given the book without the old order and
\* a new order of the same identifier, the old order's type and the given side,
\* price and quantity; the new order is let in; afterwards it is live at the
\* tail of the level of the new side and price, or the returned trades filled it.
C7_ModifyIsCancelThenAdd ==
    (Returned("MatchOrder") /\ CallId \in DOMAIN pre.orders_) =>
      LET m == last.modify
          type == pre.objs[pre.orders_[CallId].order_].orderType_
          cancelled == [pre EXCEPT !.bids_ = Without(@, CallId),
                                   !.asks_ = Without(@, CallId),
                                   !.orders_ = Except(@, CallId),
                                   !.objs = Except(@, CallId)]
          expected == AddOrder(cancelled, Order(type, CallId, m.side_, m.price_, m.quantity_), FALSE)
          executed == Executed(CallId, m.side_, Len(trades))
      IN /\ trades = expected.trades
         /\ bids_ = expected.bids_
         /\ asks_ = expected.asks_
         /\ orders_ = expected.orders_
         /\ objs = Release(expected).objs
         /\ CallId \in DOMAIN orders_ \/ Touched(CallId, m.side_)
         /\ CallId \in DOMAIN orders_ =>
               LET o == objs[orders_[CallId].order_]
                   level == LevelsOf(Cur, m.side_)[m.price_]
               IN /\ o = [Order(type, CallId, m.side_, m.price_, m.quantity_)
                             EXCEPT !.remainingQuantity_ = m.quantity_ - executed]
                  /\ m.price_ \in DOMAIN LevelsOf(Cur, m.side_)
                  /\ level[Len(level)] = CallId
         /\ CallId \notin DOMAIN orders_ => executed = m.quantity_

\* An order at the head of its level is modified to the same side and price and
\* ends behind the order that was behind it.
C7_Witness ==
    /\ Returned("MatchOrder")
    /\ CallId \in DOMAIN pre.orders_
    /\ LET o == pre.objs[CallId]
           before == LevelsOf(pre, o.side_)[o.price_]
       IN /\ last.modify.side_ = o.side_
          /\ last.modify.price_ = o.price_
          /\ Len(before) > 1
          /\ before[1] = CallId
          /\ o.price_ \in DOMAIN LevelsOf(Cur, o.side_)
          /\ LevelsOf(Cur, o.side_)[o.price_][1] = before[2]
          /\ CallId \in DOMAIN orders_

\* C8: for every AddOrder that returns, Size() after less Size() before is
\* (1 if the submitted order is live, else 0) less the number of resting
\* orders of the other side that the returned trades filled completely.
C8_SizeAccounting ==
    Returned("AddOrder") =>
      LET o == last.order
          fresh == CallId \notin DOMAIN pre.orders_
          rejected == ~fresh \/ (o.orderType_ = "FillandKill"
                                  /\ ~Crosses(pre, o.side_, o.price_))
          live == IF fresh /\ CallId \in DOMAIN orders_ THEN 1 ELSE 0
          counter == IF o.side_ = "Buy" THEN "Sell" ELSE "Buy"
          filled == {x \in DOMAIN pre.orders_ :
                       /\ pre.objs[x].side_ = counter
                       /\ Touched(x, counter)
                       /\ Executed(x, counter, Len(trades)) = pre.objs[x].remainingQuantity_}
      IN /\ Size(Cur) - Size(pre) = live - Cardinality(filled)
         /\ rejected => Size(Cur) = Size(pre)
         /\ (live = 1 /\ filled = {}) => Size(Cur) = Size(pre) + 1

\* A submission fills a resting order completely and rests with its remainder.
C8_Witness ==
    /\ Returned("AddOrder")
    /\ CallId \notin DOMAIN pre.orders_
    /\ CallId \in DOMAIN orders_
    /\ trades # <<>>
    /\ Size(Cur) = Size(pre)
    /\ objs[orders_[CallId].order_].remainingQuantity_ > 0

\* The live orders of one side at one price, taken from the index.
LiveAt(side, price) ==
    {id \in DOMAIN orders_ :
        /\ objs[orders_[id].order_].side_ = side
        /\ objs[orders_[id].order_].price_ = price}

\* The sum of what the orders of S have left, as <<high part, low half>> with
\* the high part unbounded: the sum in the integers.
RECURSIVE TotalOf(_)
TotalOf(S) ==
    IF S = {} THEN <<0, 0>>
    ELSE LET id == CHOOSE x \in S : TRUE
             rest == TotalOf(S \ {id})
             q == objs[orders_[id].order_].remainingQuantity_
             lo == rest[2] + (q % Half)
         IN <<rest[1] + (q \div Half) + (lo \div Half), lo % Half>>

\* The snapshot of one side is right: one entry per price with a live order, in
\* the given strict order of prices, each total the sum of what is left.
SideSnapshot(infos, side, Before(_, _)) ==
    /\ {infos[i].price_ : i \in 1..Len(infos)} = {p \in Prices : LiveAt(side, p) # {}}
    /\ \A i \in 1..Len(infos) : \A j \in 1..Len(infos) :
          i < j => Before(infos[i].price_, infos[j].price_)
    /\ \A i \in 1..Len(infos) : infos[i].quantity_ = TotalOf(LiveAt(side, infos[i].price_))

\* C9: GetOrderInfos gives one (price, total) entry per price level that holds
\* a live order, per side; bids in strictly descending order of price, asks in
\* strictly ascending order; each total is the sum of the remaining quantities
\* of the live orders at that price on that side.
C9_SnapshotTotals ==
    outcome = "ok" =>
      LET infos == GetOrderInfos(Cur)
      IN /\ SideSnapshot(infos.bids_, "Buy", LAMBDA p, q : p > q)
         /\ SideSnapshot(infos.asks_, "Sell", LAMBDA p, q : p < q)

\* The order a returned AddOrder or MatchOrder submitted.
Submitted ==
    IF last.op = "AddOrder" THEN last.order
    ELSE Order(pre.objs[pre.orders_[CallId].order_].orderType_, CallId,
               last.modify.side_, last.modify.price_, last.modify.quantity_)

\* The order a trade names, as it was when matching began.
PartyOf(id) == IF id = CallId THEN Submitted ELSE pre.objs[id]

\* C10: every trade an AddOrder or MatchOrder returns pairs a buy order with a
\* sell order, records each order's own limit price and one quantity for both,
\* that quantity is the smaller of what the two orders had left just before
\* the fill, and the buy price is at least the sell price.
C10_TradeRecords ==
    Submits =>
      \A i \in 1..Len(trades) :
        LET t == trades[i]
            bid == PartyOf(t.bidTrade_.orderId_)
            ask == PartyOf(t.askTrade_.orderId_)
            bidLeft == bid.remainingQuantity_ - Executed(bid.orderId_, "Buy", i - 1)
            askLeft == ask.remainingQuantity_ - Executed(ask.orderId_, "Sell", i - 1)
        IN /\ bid.side_ = "Buy"
           /\ ask.side_ = "Sell"
           /\ t.bidTrade_.price_ = bid.price_
           /\ t.askTrade_.price_ = ask.price_
           /\ t.bidTrade_.quantity_ = t.askTrade_.quantity_
           /\ t.bidTrade_.quantity_ = (IF bidLeft <= askLeft THEN bidLeft ELSE askLeft)
           /\ bid.price_ >= ask.price_

\* A trade whose two sides record different prices, second of its call.
C10_Witness ==
    /\ Submits
    /\ Len(trades) >= 2
    /\ trades[2].bidTrade_.price_ > trades[2].askTrade_.price_
    /\ trades[2].bidTrade_.quantity_ > 0

\* The places (side, price, position) at which a queue holds node n.
PlacesOf(n) ==
    {pl \in Sides \X Prices \X (1..Cardinality(OrderIds)) :
        /\ pl[2] \in DOMAIN LevelsOf(Cur, pl[1])
        /\ pl[3] <= Len(LevelsOf(Cur, pl[1])[pl[2]])
        /\ LevelsOf(Cur, pl[1])[pl[2]][pl[3]] = n}

\* The identifiers of the orders the queues of both sides hold.
QueuedIds ==
    {objs[LevelsOf(Cur, side)[p][i]].orderId_ :
        <<side, p, i>> \in {pl \in Sides \X Prices \X (1..Cardinality(OrderIds)) :
                              /\ pl[2] \in DOMAIN LevelsOf(Cur, pl[1])
                              /\ pl[3] <= Len(LevelsOf(Cur, pl[1])[pl[2]])}}

\* C11: after every call that returns, the identifiers of the index are those
\* of the orders in the queues; every live order is in exactly one queue, once,
\* on its own side and at its own price; and the position the index keeps for
\* an identifier is the queue element that holds that very order.
C11_IndexConsistency ==
    outcome = "ok" =>
      /\ DOMAIN bids_ \subseteq Prices
      /\ DOMAIN asks_ \subseteq Prices
      /\ \A side \in Sides : \A p \in DOMAIN LevelsOf(Cur, side) :
            Len(LevelsOf(Cur, side)[p]) <= Cardinality(OrderIds)
      /\ DOMAIN orders_ = QueuedIds
      /\ \A id \in DOMAIN orders_ :
            LET entry == orders_[id]
                o == objs[entry.order_]
            IN /\ o.orderId_ = id
               /\ entry.location_ = entry.order_
               /\ PlacesOf(entry.location_) =
                     {<<o.side_, o.price_, Pos(LevelsOf(Cur, o.side_)[o.price_], entry.location_)>>}

\* A modify moved a live order to the other side while another order rests.
C11_Witness ==
    /\ Returned("MatchOrder")
    /\ CallId \in DOMAIN pre.orders_
    /\ CallId \in DOMAIN orders_
    /\ pre.objs[CallId].side_ # objs[orders_[CallId].order_].side_
    /\ Cardinality(DOMAIN orders_) >= 2
    /\ trades # <<>>

\* C12: after every call that returns, no order with remaining quantity zero
\* is in the index or in a queue, whatever quantities were submitted (zero
\* included).
C12_NoZeroRemaining ==
    outcome = "ok" =>
      /\ \A id \in DOMAIN orders_ : objs[orders_[id].order_].remainingQuantity_ > 0
      /\ \A side \in Sides : \A p \in DOMAIN LevelsOf(Cur, side) :
            \A i \in 1..Len(LevelsOf(Cur, side)[p]) :
               objs[LevelsOf(Cur, side)[p][i]].remainingQuantity_ > 0

\* C13: after every call that returns, every price of bids_ and of asks_ maps
\* to a queue of at least one order.
C13_NoEmptyLevel ==
    outcome = "ok" =>
      \A side \in Sides : \A p \in DOMAIN LevelsOf(Cur, side) :
         LevelsOf(Cur, side)[p] # <<>>

\* The call took the last order out of a level, by a fill (a submission that
\* traded) or by CancelOrder, and another level of that side is still there.
C13_Witness ==
    /\ outcome = "ok"
    /\ last.op # "none"
    /\ last.op = "CancelOrder" \/ trades # <<>>
    /\ \E side \in Sides :
          /\ DOMAIN LevelsOf(pre, side) \ DOMAIN LevelsOf(Cur, side) # {}
          /\ DOMAIN LevelsOf(Cur, side) # {}

\* C14: after every AddOrder, CancelOrder and MatchOrder that returns, one
\* side is empty or every bid price is below every ask price: the best bid is
\* strictly less than the best ask.
C14_NeverCrossed ==
    outcome = "ok" =>
      \A p \in DOMAIN bids_ : \A q \in DOMAIN asks_ : p < q

\* A submission traded and left orders on both sides.
C14_Witness ==
    /\ Submits
    /\ trades # <<>>
    /\ DOMAIN bids_ # {}
    /\ DOMAIN asks_ # {}

\* What order id had left just before trade n of the call.
LeftBefore(id, side, n) == PartyOf(id).remainingQuantity_ - Executed(id, side, n - 1)

\* C15: the logic_error of Order::Fill is never raised: in every reachable
\* state no call has ended with that error, nor with any other exception, and
\* every fill the matching loop made was of a quantity no greater than what
\* either order had left.
C15_FillNeverThrows ==
    /\ outcome \notin {"logic_error", "out_of_range"}
    /\ Submits =>
          \A i \in 1..Len(trades) :
             /\ trades[i].bidTrade_.quantity_ <= LeftBefore(trades[i].bidTrade_.orderId_, "Buy", i)
             /\ trades[i].askTrade_.quantity_ <= LeftBefore(trades[i].askTrade_.orderId_, "Sell", i)

\* A fill smaller than what the order had left: the order is live afterwards
\* with part of its quantity executed.
C15_Witness ==
    /\ Submits
    /\ \E i \in 1..Len(trades) :
          LET id == trades[i].bidTrade_.orderId_
          IN /\ trades[i].bidTrade_.quantity_ > 0
             /\ trades[i].bidTrade_.quantity_ < LeftBefore(id, "Buy", i)
             /\ id \in DOMAIN orders_
             /\ objs[orders_[id].order_].remainingQuantity_ < objs[orders_[id].order_].initialQuantity_

\* The orders live right after AddOrder inserted the submitted one.
LiveAfterInsertion == RestingIds \cup {CallId}

\* Seen from the caller of Spec: no call is caught in the outer loop; each
\* trade of a returned call filled at least one of its two orders completely,
\* and that order is gone from the book; so the trades are at most as many as
\* the orders live right after the insertion; and the loop was left with a
\* side empty or the best bid below the best ask.
ReturnedTradesFillAHead ==
    /\ outcome # "hang"
    /\ Submits =>
          /\ \A i \in 1..Len(trades) :
                LET t == trades[i]
                    bid == t.bidTrade_.orderId_
                    ask == t.askTrade_.orderId_
                IN \/ /\ t.bidTrade_.quantity_ = LeftBefore(bid, "Buy", i)
                      /\ bid \notin DOMAIN orders_
                      /\ \A j \in (i + 1)..Len(trades) : trades[j].bidTrade_.orderId_ # bid
                   \/ /\ t.askTrade_.quantity_ = LeftBefore(ask, "Sell", i)
                      /\ ask \notin DOMAIN orders_
                      /\ \A j \in (i + 1)..Len(trades) : trades[j].askTrade_.orderId_ # ask
          /\ Len(trades) <= Cardinality(LiveAfterInsertion)
          /\ \/ DOMAIN bids_ = {}
             \/ DOMAIN asks_ = {}
             \/ BestBid(Cur) < BestAsk(Cur)

\* The sum of the quantities the bid sides, or the ask sides, of the trades record.
RECURSIVE SideTotal(_, _)
SideTotal(side, n) ==
    IF n = 0 THEN 0
    ELSE SideTotal(side, n - 1)
         + (IF side = "Buy" THEN trades[n].bidTrade_.quantity_ ELSE trades[n].askTrade_.quantity_)

\* The orders that are the same Order object before and after the call.
Kept ==
    (DOMAIN pre.orders_ \cap DOMAIN orders_)
      \ (IF last.op = "MatchOrder" THEN {CallId} ELSE {})

\* C17: quantities are conserved. For every live order the remaining quantity
\* is at most the initial one and initial - remaining is the quantity of all
\* the trades that named the order since it was submitted; across a call the
\* remaining quantity of an order does not grow, its initial quantity stays, and
\* what it lost is what the trades of that call executed for it (nothing in a
\* CancelOrder); an order that left the book by being filled was executed for
\* all it had left; within one call the bid sides and the ask sides of the trades
\* add up to the same quantity.
C17_QuantityConservation ==
    outcome = "ok" =>
      /\ DOMAIN fills = DOMAIN orders_
      /\ \A id \in DOMAIN orders_ :
            LET o == objs[orders_[id].order_]
            IN /\ o.remainingQuantity_ <= o.initialQuantity_
               /\ o.initialQuantity_ - o.remainingQuantity_ = fills[id]
      /\ last.op # "none" =>
            /\ \A id \in Kept :
                  LET before == pre.objs[id]
                      after == objs[id]
                  IN /\ after.remainingQuantity_ <= before.remainingQuantity_
                     /\ after.initialQuantity_ = before.initialQuantity_
                     /\ before.remainingQuantity_ - after.remainingQuantity_
                          = Executed(id, before.side_, Len(trades))
            /\ Submits =>
                  /\ \A id \in RestingIds \ DOMAIN orders_ :
                        Executed(id, pre.objs[id].side_, Len(trades))
                          = pre.objs[id].remainingQuantity_
                  /\ (trades # <<>> /\ CallId \notin DOMAIN orders_) =>
                        LET o == Submitted
                            done == Executed(CallId, o.side_, Len(trades))
                        IN IF o.orderType_ = "FillandKill"
                           THEN done <= o.initialQuantity_
                           ELSE done = o.initialQuantity_
            /\ SideTotal("Buy", Len(trades)) = SideTotal("Sell", Len(trades))

\* An order that an earlier call filled in part gets the rest in this call.
C17_Witness ==
    /\ Submits
    /\ \E id \in RestingIds :
          /\ pre.objs[id].remainingQuantity_ < pre.objs[id].initialQuantity_
          /\ Executed(id, pre.objs[id].side_, Len(trades)) > 0
          /\ id \notin DOMAIN orders_

\* The order trade t names on the side opposite to the given one.
CounterOf(t, side) ==
    IF side = "Buy" THEN t.askTrade_.orderId_ ELSE t.bidTrade_.orderId_

\* C18: every trade a returned AddOrder or MatchOrder gives names the
\* submitted order on its own side, and on the other side an order of the
\* opposite side that was resting before the call: no two resting orders trade
\* with each other. The resting orders come in the sequence best price first
\* and, at one price, in the order they arrived.
C18_TradesNameSubmitted ==
    Submits =>
      /\ \A i \in 1..Len(trades) :
            LET side == Submitted.side_
                counter == CounterOf(trades[i], side)
            IN /\ Names(trades[i], CallId, side)
               /\ counter \in RestingIds
               /\ counter # CallId
               /\ pre.objs[counter].side_ # side
      /\ \A i \in 1..Len(trades) : \A j \in 1..Len(trades) :
            i < j => PriorityOver(CounterOf(trades[i], Submitted.side_),
                                  CounterOf(trades[j], Submitted.side_))

\* A sell traded with a resting bid while an ask of another identifier was
\* resting too, and that ask is in none of the trades.
C18_Witness ==
    /\ Submits
    /\ trades # <<>>
    /\ Submitted.side_ = "Sell"
    /\ \E id \in RestingIds :
          /\ pre.objs[id].side_ = "Sell"
          /\ id \in DOMAIN orders_

\* C19: no call reads through a reference to an element it has erased from
\* its container: CancelOrder reads order and iterator only while the index
\* entry exists, the matching loop reads bid, ask and the level lists only
\* while the head is in its list and the level in its map, MatchOrder reads
\* the existing order's type only while its index entry exists. No call is
\* stopped at such a read.
C19_NoReadThroughErased ==
    /\ dangling = {}
    /\ outcome # "trap"

\* The sum of what the orders of a level's queue have left, in the integers:
\* <<high part, low half>> with nothing of the high part dropped.
RECURSIVE QueueTotal(_)
QueueTotal(orders) ==
    IF orders = <<>> THEN <<0, 0>>
    ELSE LET rest == QueueTotal(Tail(orders))
             q == objs[Head(orders)].remainingQuantity_
             lo == rest[2] + (q % Half)
         IN <<rest[1] + (q \div Half) + (lo \div Half), lo % Half>>

\* C20: the total GetOrderInfos reports for a level is the sum, in the
\* integers, of the remaining quantities of the orders at that level, also
\* when that sum is 2^32 or more: nothing is lost modulo 2^32.
C20_SnapshotSumExact ==
    outcome = "ok" =>
      LET infos == GetOrderInfos(Cur)
      IN /\ \A i \in 1..Len(infos.bids_) :
               infos.bids_[i].quantity_ = QueueTotal(bids_[infos.bids_[i].price_])
         /\ \A i \in 1..Len(infos.asks_) :
               infos.asks_[i].quantity_ = QueueTotal(asks_[infos.asks_[i].price_])

\* ------------------------------------------------------------ termination
\* The heads of the two best levels, the orders a pass works on (lines 227-228).
HeadBid == objs[Front(bids_[BestBid(Cur)])]

HeadAsk == objs[Front(asks_[BestAsk(Cur)])]

\* No queue of the next state holds the order id.
Unqueued(id) ==
    /\ \A p \in DOMAIN bids_' : \A x \in Range(bids_'[p]) : objs'[x].orderId_ # id
    /\ \A p \in DOMAIN asks_' : \A x \in Range(asks_'[p]) : objs'[x].orderId_ # id

\* A pass made one trade, and the trade took all that was left of the head bid
\* or of the head ask, which is in no queue and not in the index afterwards.
PassFillsAHead ==
    LET t == trades'[Len(trades')]
    IN /\ Len(trades') = Len(trades) + 1
       /\ \/ /\ t.bidTrade_.orderId_ = HeadBid.orderId_
             /\ t.bidTrade_.quantity_ = HeadBid.remainingQuantity_
             /\ HeadBid.orderId_ \notin DOMAIN orders_'
             /\ Unqueued(HeadBid.orderId_)
          \/ /\ t.askTrade_.orderId_ = HeadAsk.orderId_
             /\ t.askTrade_.quantity_ = HeadAsk.remainingQuantity_
             /\ HeadAsk.orderId_ \notin DOMAIN orders_'
             /\ Unqueued(HeadAsk.orderId_)
       /\ DOMAIN orders_' \subseteq DOMAIN orders_
       /\ DOMAIN orders_' # DOMAIN orders_

\* The book of the next state has a side empty or its best bid below its best ask.
UncrossedNext ==
    \/ DOMAIN bids_' = {}
    \/ DOMAIN asks_' = {}
    \/ MaxOf(DOMAIN bids_') < MinOf(DOMAIN asks_')

\* A call in the loop leaves it: it returns, or the program is stopped.
LoopIsLeft == InMatching ~> ~InMatching

\* C16: every AddOrder and MatchOrder comes to an end. While the call is in
\* the loop of MatchOrders, the trades made so far and the orders still live are
\* together at most the orders that were live right after the insertion, and a
\* crossed book always has two heads to work on; each pass of the loop makes one
\* trade that fully fills at least one of the two heads and removes it; a call
\* that returns leaves a side empty or the best bid below the best ask; and
\* every call that entered the loop leaves it.
C16_MatchingTerminates ==
    /\ [](InMatching => /\ Len(trades) + Size(Cur) <= last.reserved
                        /\ LoopGoesOn => /\ bids_[BestBid(Cur)] # <<>>
                                         /\ asks_[BestAsk(Cur)] # <<>>)
    /\ [][InMatching /\ InMatching' => PassFillsAHead]_vars
    /\ [][InMatching /\ ~InMatching' /\ outcome' = "ok" => UncrossedNext]_vars
    /\ LoopIsLeft

\* The call made two passes, one for each of two resting orders, and the loop
\* is about to be left.
C16_Witness ==
    /\ InMatching
    /\ Len(trades) = 2
    /\ last.reserved = 3
    /\ ~LoopGoesOn

====
